---- MODULE Spec2Model ----
(***************************************************************************)
(* A model of CiteBibtex.py: the per-file bibliography cache               *)
(* (last_modified, refs, ref_keys), the projection get_item, the selector  *)
(* show_selector and its callback insert_ref.                              *)
(*                                                                         *)
(* Python strings are sequences of one-character strings, so that          *)
(* concatenation, splitting, capitalisation and replacement are computed.  *)
(* The BibTeX parser is external: a file's content is the ordered sequence *)
(* of entries the parser yields for it (after customization.author), or    *)
(* an undecodable file on which open/parse raises.                         *)
(***************************************************************************)
EXTENDS Integers, Sequences, FiniteSets, TLC

VARIABLES
    loaded,              \* plugin_loaded_setup has run (the attributes exist)
    files,               \* the disk: path -> [exists, mtime, content]
    last_modified,       \* self.last_modified : path -> mtime
    refs,                \* self.refs          : path -> list of display records
    ref_keys,            \* self.ref_keys      : path -> list of IDs
    current_ref_source,  \* self.current_ref_source (NoPath until first set)
    panel,               \* the quick panel handed to window.show_quick_panel
    last,                \* what the last operation did (observation)
    hist,                \* per path: what earlier loads saw (staleness run)
    entry,               \* get_item's argument i            (projection run)
    fields_setting,      \* additional_search_fields setting (projection run)
    item,                \* get_item's outcome               (projection run)
    pc                   \* position of the projection run

vars == <<loaded, files, last_modified, refs, ref_keys, current_ref_source,
          panel, last, hist, entry, fields_setting, item, pc>>

cacheVars == <<loaded, files, last_modified, refs, ref_keys,
               current_ref_source, panel, last, hist>>

projVars == <<entry, fields_setting, item, pc>>

----------------------------------------------------------------------------
(* Strings *)

Lower == <<"a","b","c","d","e","f","g","h","i","j","k","l","m",
           "n","o","p","q","r","s","t","u","v","w","x","y","z">>
Upper == <<"A","B","C","D","E","F","G","H","I","J","K","L","M",
           "N","O","P","Q","R","S","T","U","V","W","X","Y","Z">>

\* str.upper / str.lower on one character
UpperOf(c) ==
    IF \E k \in 1..Len(Lower) : Lower[k] = c
    THEN Upper[CHOOSE k \in 1..Len(Lower) : Lower[k] = c]
    ELSE c

LowerOf(c) ==
    IF \E k \in 1..Len(Upper) : Upper[k] = c
    THEN Lower[CHOOSE k \in 1..Len(Upper) : Upper[k] = c]
    ELSE c

\* str.capitalize(): first character upper-cased, the rest lower-cased
Capitalize(s) ==
    [k \in 1..Len(s) |-> IF k = 1 THEN UpperOf(s[k]) ELSE LowerOf(s[k])]

\* s.startswith(pre)
StartsWith(s, pre) ==
    /\ Len(pre) <= Len(s)
    /\ SubSeq(s, 1, Len(pre)) = pre

\* s.endswith(suf)
EndsWith(s, suf) ==
    /\ Len(suf) <= Len(s)
    /\ SubSeq(s, Len(s) - Len(suf) + 1, Len(s)) = suf

\* s.find(pat) as a 1-based position, 0 when absent
Find(s, pat) ==
    LET hits == {k \in 1..(Len(s) - Len(pat) + 1) :
                    SubSeq(s, k, k + Len(pat) - 1) = pat}
    IN IF hits = {} THEN 0
       ELSE CHOOSE k \in hits : \A j \in hits : k <= j

\* s.split(sep)[0]
SplitFirst(s, sep) ==
    IF Find(s, sep) = 0 THEN s ELSE SubSeq(s, 1, Find(s, sep) - 1)

\* sep.join(list)
RECURSIVE Join(_, _)
Join(list, sep) ==
    IF Len(list) = 0 THEN <<>>
    ELSE IF Len(list) = 1 THEN list[1]
    ELSE list[1] \o sep \o Join(Tail(list), sep)

\* s.replace(pat, rep), pat non-empty: every non-overlapping occurrence
RECURSIVE Replace(_, _, _)
Replace(s, pat, rep) ==
    IF Find(s, pat) = 0 THEN s
    ELSE SubSeq(s, 1, Find(s, pat) - 1) \o rep
         \o Replace(SubSeq(s, Find(s, pat) + Len(pat), Len(s)), pat, rep)

Bar == <<" ", "|", " ">>            \* ' | '
CommaSpace == <<",", " ">>          \* ', '
Comma == <<",">>                    \* ','
NoDate == <<"<","n","o"," ","d","a","t","e",">">>
NoAuthors == <<"<","n","o"," ","a","u","t","h","o","r","s",">">>
Placeholder == <<"$","C","I","T","A","T","I","O","N">>

----------------------------------------------------------------------------
(* get_item: the projection of one entry *)

Has(i, f) == f \in DOMAIN i

\* isinstance(i[field], list): author is a list after customization.author,
\* keywords is a plain string
ListFields == {"author"}

Year(i) ==
    IF Has(i, "year") THEN i["year"]
    ELSE IF Has(i, "issued") THEN i["issued"]
    ELSE NoDate

Authors(i) ==
    IF Has(i, "author")
    THEN Join([k \in 1..Len(i["author"]) |-> SplitFirst(i["author"][k], Comma)],
              CommaSpace)
    ELSE NoAuthors

Title(i) == IF Has(i, "title") THEN i["title"] ELSE <<>>

\* `publication` is bound by line 101 only when the title lookup succeeds;
\* line 116 reads it, so an entry with neither title nor journal-like field
\* raises UnboundLocalError.
PublicationRaises(i) ==
    /\ ~Has(i, "journal")
    /\ ~Has(i, "journaltitle")
    /\ ~Has(i, "title")

Publication(i) ==
    IF Has(i, "journal") \/ Has(i, "journaltitle")
    THEN LET base == IF Has(i, "journal") THEN i["journal"]
                     ELSE i["journaltitle"]
             vol == IF Has(i, "volume")
                    THEN base \o <<" ", "(">> \o i["volume"] \o <<")">>
                    ELSE base
         IN IF Has(i, "number") THEN vol \o <<" ">> \o i["number"] ELSE vol
    ELSE \* publication == title always holds here (both bound to i['title'])
         IF Has(i, "institution") THEN i["institution"]
         ELSE IF Has(i, "booktitle") THEN i["booktitle"]
         ELSE Capitalize(i["ENTRYTYPE"])

FieldText(i, f) ==
    IF f \in ListFields THEN Join(i[f], CommaSpace) ELSE i[f]

RECURSIVE SearchTail(_, _)
SearchTail(i, fieldList) ==
    IF Len(fieldList) = 0 THEN <<>>
    ELSE (IF Has(i, Head(fieldList))
          THEN FieldText(i, Head(fieldList)) \o Bar
          ELSE <<>>)
         \o SearchTail(i, Tail(fieldList))

SearchKey(i, additional_search_fields) ==
    IF Len(additional_search_fields) > 0
    THEN i["ID"] \o Bar \o SearchTail(i, additional_search_fields)
    ELSE i["ID"]

NoItem == <<>>

get_item(i, additional_search_fields) ==
    IF PublicationRaises(i)
    THEN [raised |-> TRUE, value |-> NoItem]
    ELSE [raised |-> FALSE,
          value |-> << SearchKey(i, additional_search_fields),
                       Year(i) \o Bar \o Authors(i),
                       Title(i),
                       Publication(i) >>]

----------------------------------------------------------------------------
(* Entries and file contents *)

S_k1 == <<"k","1">>
S_k2 == <<"k","2">>
S_k3 == <<"k","3">>

FieldValue(f) ==
    CASE f = "year"         -> <<"2","0","2","0">>
      [] f = "issued"       -> <<"2","0","1","9">>
      [] f = "author"       -> << <<"S","m","i","t","h",","," ","J">>,
                                  <<"D","o","e",","," ","J">> >>
      [] f = "title"        -> <<"O","n"," ","X">>
      [] f = "journal"      -> <<"X">>
      [] f = "journaltitle" -> <<"Y">>
      [] f = "volume"       -> <<"3">>
      [] f = "number"       -> <<"2">>
      [] f = "institution"  -> <<"M","I","T">>
      [] f = "booktitle"    -> <<"P","r","o","c">>
      [] f = "keywords"     -> <<"k","w">>

OptionalFields == {"year", "issued", "author", "title", "journal",
                   "journaltitle", "volume", "number", "institution",
                   "booktitle", "keywords"}

EntryTypes == { <<"m","i","s","c">>, <<"t","e","c","h","R","e","p">> }

\* a RawEntry: ID and ENTRYTYPE always, the optional fields in `present`
MkEntry(id, type, present) ==
    [f \in {"ID", "ENTRYTYPE"} \cup present |->
        IF f = "ID" THEN id
        ELSE IF f = "ENTRYTYPE" THEN type
        ELSE FieldValue(f)]

ProjEntries ==
    {MkEntry(S_k1, t, S) : t \in EntryTypes, S \in SUBSET OptionalFields}

\* values of the additional_search_fields setting
FieldSettings == { <<>>, <<"author">>, <<"keywords", "author">>,
                   <<"year", "keywords">> }

eA == MkEntry(S_k1, <<"a","r","t","i","c","l","e">>,
              {"title", "author", "journal", "year"})
eB == MkEntry(S_k2, <<"m","i","s","c">>, {"title"})
eC == MkEntry(S_k3, <<"m","i","s","c">>, {"author"})   \* no title, no journal

\* what the parser yields for a file: decodable = open/parse succeed
DocA == [decodable |-> TRUE, entries |-> <<eA, eB>>]
DocB == [decodable |-> TRUE, entries |-> <<eB>>]
DocC == [decodable |-> TRUE, entries |-> <<eA, eC>>]   \* projection raises
DocRaw == [decodable |-> FALSE, entries |-> <<>>]      \* UnicodeDecodeError
Contents == {DocA, DocB, DocRaw}                \* cache run
StaleContents == {DocA, DocB, DocC, DocRaw}     \* staleness run

Paths == {"p1", "p2"}
NoPath == "none"
global_file == "p1"        \* plugin_settings.get('bibtex_file')

MaxTime == 2
Times == 1..MaxTime

NoFile == [exists |-> FALSE, mtime |-> 0, content |-> DocRaw]
FileStates(contents) ==
    {NoFile} \cup {[exists |-> TRUE, mtime |-> t, content |-> c] :
                      t \in Times, c \in contents}

\* a dict: a function whose domain is the set of keys present
EmptyMap == [p \in {} |-> 0]
Put(m, k, v) == [x \in DOMAIN m \cup {k} |-> IF x = k THEN v ELSE m[x]]

\* settings used while loading a file in the cache run
LoadSettings == { <<"author">> }

\* plugin_settings.get('styles')
Styles == [latex  |-> <<"\\","c","i","t","e","{">> \o Placeholder \o <<"}">>,
           pandoc |-> <<"[","@">> \o Placeholder \o <<"]">>]
StyleNames == {"latex", "pandoc", "nostyle"}

----------------------------------------------------------------------------
(* The operations *)

\* check_modified comparing with >= : an unchanged file counts as modified
check_modified_ge(lm, fs, ref_file) ==
    IF ~fs[ref_file].exists
    THEN [raised |-> TRUE, ret |-> FALSE, last_modified |-> lm]
    ELSE [raised |-> FALSE,
          ret |-> (ref_file \notin DOMAIN lm
                   \/ fs[ref_file].mtime >= lm[ref_file]),
          last_modified |-> Put(lm, ref_file, fs[ref_file].mtime)]

\* check_modified that reports a modified file without recording its mtime
check_modified_noupdate(lm, fs, ref_file) ==
    IF ~fs[ref_file].exists
    THEN [raised |-> TRUE, ret |-> FALSE, last_modified |-> lm]
    ELSE IF ref_file \notin DOMAIN lm
    THEN [raised |-> FALSE, ret |-> TRUE,
          last_modified |-> Put(lm, ref_file, fs[ref_file].mtime)]
    ELSE [raised |-> FALSE, ret |-> fs[ref_file].mtime > lm[ref_file],
          last_modified |-> lm]

\* check_modified that records a failed stat as mtime 0 before raising
check_modified_cachefail(lm, fs, ref_file) ==
    IF ~fs[ref_file].exists
    THEN [raised |-> TRUE, ret |-> FALSE, last_modified |-> Put(lm, ref_file, 0)]
    ELSE [raised |-> FALSE,
          ret |-> (ref_file \notin DOMAIN lm
                   \/ fs[ref_file].mtime > lm[ref_file]),
          last_modified |-> IF ref_file \notin DOMAIN lm
                               \/ fs[ref_file].mtime > lm[ref_file]
                            THEN Put(lm, ref_file, fs[ref_file].mtime)
                            ELSE lm]

\* check_modified: [raised, ret, last_modified after the call]
check_modified(lm, fs, ref_file) ==
    IF ~fs[ref_file].exists
    THEN [raised |-> TRUE, ret |-> FALSE, last_modified |-> lm]
    ELSE LET modified == fs[ref_file].mtime IN
         IF ref_file \notin DOMAIN lm
         THEN [raised |-> FALSE, ret |-> TRUE,
               last_modified |-> Put(lm, ref_file, modified)]
         ELSE IF modified > lm[ref_file]
         THEN [raised |-> FALSE, ret |-> TRUE,
               last_modified |-> Put(lm, ref_file, modified)]
         ELSE [raised |-> FALSE, ret |-> FALSE, last_modified |-> lm]

\* bib.entries_dict iterated: one entry per ID, in a fixed order for a given
\* file content (the IDs of a content are distinct)
entries_dict(content) == content.entries

\* update_refs whose key list iterates the entries in the opposite order
update_refs_reversed(rf, rk, fs, ref_file, additional_search_fields) ==
    LET f == fs[ref_file]
        es == entries_dict(f.content)
        items == [k \in 1..Len(es) |-> get_item(es[k], additional_search_fields)]
    IN IF \/ ~f.exists
          \/ ~f.content.decodable
          \/ \E k \in 1..Len(es) : items[k].raised
       THEN [raised |-> TRUE, refs |-> rf, ref_keys |-> rk]
       ELSE [raised |-> FALSE,
             refs |-> Put(rf, ref_file, [k \in 1..Len(es) |-> items[k].value]),
             ref_keys |-> Put(rk, ref_file,
                              [k \in 1..Len(es) |-> es[Len(es) + 1 - k]["ID"]])]

\* update_refs that fills a path only once (setdefault instead of assignment)
update_refs_setdefault(rf, rk, fs, ref_file, additional_search_fields) ==
    LET f == fs[ref_file]
        es == entries_dict(f.content)
        items == [k \in 1..Len(es) |-> get_item(es[k], additional_search_fields)]
    IN IF \/ ~f.exists
          \/ ~f.content.decodable
          \/ \E k \in 1..Len(es) : items[k].raised
       THEN [raised |-> TRUE, refs |-> rf, ref_keys |-> rk]
       ELSE IF ref_file \in DOMAIN rf
       THEN [raised |-> FALSE, refs |-> rf, ref_keys |-> rk]
       ELSE [raised |-> FALSE,
             refs |-> Put(rf, ref_file, [k \in 1..Len(es) |-> items[k].value]),
             ref_keys |-> Put(rk, ref_file, [k \in 1..Len(es) |-> es[k]["ID"]])]

\* update_refs: [raised, refs, ref_keys after the call]; both assignments
\* come after everything that can raise
update_refs(rf, rk, fs, ref_file, additional_search_fields) ==
    LET f == fs[ref_file]
        es == entries_dict(f.content)
        items == [k \in 1..Len(es) |-> get_item(es[k], additional_search_fields)]
    IN IF \/ ~f.exists
          \/ ~f.content.decodable
          \/ \E k \in 1..Len(es) : items[k].raised
       THEN [raised |-> TRUE, refs |-> rf, ref_keys |-> rk]
       ELSE [raised |-> FALSE,
             refs |-> Put(rf, ref_file, [k \in 1..Len(es) |-> items[k].value]),
             ref_keys |-> Put(rk, ref_file, [k \in 1..Len(es) |-> es[k]["ID"]])]

\* get_citation_style with the resolved style name
get_citation_style(style) ==
    IF style \in DOMAIN Styles
    THEN [raised |-> FALSE, value |-> Styles[style]]
    ELSE [raised |-> TRUE, value |-> <<>>]

\* insert_ref indexing with refid - 1 (Python wraps index -1 to the last key)
insert_ref_prev(rk, source, refid, style) ==
    IF \/ source \notin DOMAIN rk
       \/ refid + 1 > Len(rk[source])
       \/ get_citation_style(style).raised
    THEN [raised |-> TRUE, citation |-> <<>>]
    ELSE [raised |-> FALSE,
          citation |-> Replace(get_citation_style(style).value, Placeholder,
                               rk[source][IF refid = 0 THEN Len(rk[source])
                                          ELSE refid])]

\* insert_ref for refid # -1: [raised, citation]
insert_ref(rk, source, refid, style) ==
    IF \/ source \notin DOMAIN rk
       \/ refid + 1 > Len(rk[source])
       \/ get_citation_style(style).raised
    THEN [raised |-> TRUE, citation |-> <<>>]
    ELSE [raised |-> FALSE,
          citation |-> Replace(get_citation_style(style).value, Placeholder,
                               rk[source][refid + 1])]

----------------------------------------------------------------------------
(* Observation records *)

NoPanel == [open |-> FALSE, items |-> <<>>]

\* what the program's last operation did; cleared when the disk changes
\* first: the path was not yet in last_modified; repeat: the operation
\* before was a show_selector of the same path; changed: content and mtime
\* both differ from what the previous check of the path saw; retry: the
\* previous check of the path failed its stat and the file exists now
NoLast == [op |-> "none", path |-> NoPath, outcome |-> "none",
           stale |-> FALSE, reparsed |-> FALSE, setting |-> <<>>,
           shown |-> <<>>, keys |-> <<>>,
           first |-> FALSE, repeat |-> FALSE, changed |-> FALSE,
           retry |-> FALSE,
           refid |-> -1, style |-> "none", citation |-> <<>>]

\* per path: the file as the previous check_modified of the path found it,
\* and the file version the cached refs were parsed from
NoHist == [called |-> FALSE, seen |-> NoFile, src |-> NoFile]

Observe(h, p, load_ok) ==
    [h EXCEPT ![p] = [called |-> TRUE,
                      seen |-> files[p],
                      src |-> IF load_ok THEN files[p] ELSE h[p].src]]

\* content and mtime of p both differ from what the previous check of p saw
Changed(p) ==
    /\ hist[p].called
    /\ hist[p].seen.exists
    /\ files[p].exists
    /\ files[p].content # hist[p].seen.content
    /\ files[p].mtime # hist[p].seen.mtime

ProjIdle ==
    /\ entry = MkEntry(S_k1, <<"m","i","s","c">>, {})
    /\ fields_setting = <<>>
    /\ item = [raised |-> FALSE, value |-> NoItem]
    /\ pc = "idle"

\* the previous check of p could not stat the file, which exists now
Retry(p) ==
    /\ hist[p].called
    /\ ~hist[p].seen.exists
    /\ files[p].exists

\* the display records and the keys of a whole file content
Projection(content, additional_search_fields) ==
    [k \in 1..Len(entries_dict(content)) |->
        get_item(entries_dict(content)[k], additional_search_fields).value]

KeysOf(content) ==
    [k \in 1..Len(entries_dict(content)) |-> entries_dict(content)[k]["ID"]]

\* the ID a display record was made from: its search key up to the first ' | '
KeyOfRecord(rec) == SplitFirst(rec[1], Bar)

----------------------------------------------------------------------------
(* The cache run *)

InitCache ==
    /\ loaded = FALSE
    /\ last_modified = EmptyMap
    /\ refs = EmptyMap
    /\ ref_keys = EmptyMap
    /\ current_ref_source = NoPath
    /\ panel = NoPanel
    /\ last = NoLast
    /\ hist = [p \in Paths |-> NoHist]
    /\ ProjIdle

Init ==
    /\ files \in [Paths -> FileStates(Contents)]
    /\ InitCache

\* plugin_loaded_setup: empty dicts, then check_modified and update_refs of
\* the global file; either may raise and leaves what was assigned before
PluginLoaded(additional_search_fields) ==
    /\ ~loaded
    /\ LET cm == check_modified(EmptyMap, files, global_file)
           ur == update_refs(EmptyMap, EmptyMap, files, global_file,
                             additional_search_fields)
           outcome == IF cm.raised THEN "notfound"
                      ELSE IF ur.raised THEN "loadfail" ELSE "ok"
       IN /\ loaded' = TRUE
          /\ last_modified' = cm.last_modified
          /\ refs' = IF outcome = "ok" THEN ur.refs ELSE EmptyMap
          /\ ref_keys' = IF outcome = "ok" THEN ur.ref_keys ELSE EmptyMap
          /\ last' = [NoLast EXCEPT !.op = "plugin_loaded",
                                    !.path = global_file,
                                    !.outcome = outcome,
                                    !.stale = cm.ret,
                                    !.first = TRUE,
                                    !.reparsed = ~cm.raised,
                                    !.setting = IF cm.raised THEN <<>>
                                                ELSE additional_search_fields]
    /\ UNCHANGED <<files, current_ref_source, panel, projVars>>

\* show_selector; ref_source is the bibtex_file setting after lines 159-163
\* (project override, relative path joined to the project directory), and
\* additional_search_fields the setting get_item reads if the file is parsed
ShowSelector(ref_source, additional_search_fields) ==
    /\ loaded
    /\ LET cm == check_modified(last_modified, files, ref_source)
           ur == update_refs(refs, ref_keys, files, ref_source,
                             additional_search_fields)
           reparsed == ~cm.raised /\ cm.ret
           outcome == IF cm.raised THEN "notfound"
                      ELSE IF cm.ret
                      THEN (IF ur.raised THEN "loadfail" ELSE "ok")
                      ELSE IF ref_source \notin DOMAIN refs THEN "keyerror"
                      ELSE "ok"
       IN /\ last_modified' = cm.last_modified
          /\ refs' = IF reparsed THEN ur.refs ELSE refs
          /\ ref_keys' = IF reparsed THEN ur.ref_keys ELSE ref_keys
          /\ current_ref_source' = IF outcome \in {"ok", "keyerror"}
                                   THEN ref_source ELSE current_ref_source
          /\ panel' = IF outcome = "ok"
                      THEN [open |-> TRUE, items |-> refs'[ref_source]]
                      ELSE panel
          /\ last' = [NoLast EXCEPT !.op = "show_selector",
                                    !.path = ref_source,
                                    !.outcome = outcome,
                                    !.stale = cm.ret,
                                    !.first = ref_source \notin DOMAIN last_modified,
                                    !.repeat = (last.op = "show_selector"
                                                /\ last.path = ref_source),
                                    !.changed = Changed(ref_source),
                                    !.retry = Retry(ref_source),
                                    !.reparsed = reparsed,
                                    !.setting = IF reparsed
                                                THEN additional_search_fields
                                                ELSE <<>>,
                                    !.shown = IF outcome = "ok"
                                              THEN refs'[ref_source] ELSE <<>>,
                                    !.keys = IF outcome = "ok"
                                             THEN ref_keys'[ref_source] ELSE <<>>]
    /\ UNCHANGED <<loaded, files, projVars>>

\* the quick panel's callback: insert_ref(refid), refid = -1 for no choice
InsertRef(refid, style) ==
    /\ panel.open
    /\ panel' = NoPanel
    /\ LET r == insert_ref(ref_keys, current_ref_source, refid, style)
           outcome == IF refid = -1 THEN "nothing"
                      ELSE IF r.raised THEN "raised" ELSE "ok"
       IN last' = [NoLast EXCEPT !.op = "insert_ref",
                                 !.path = current_ref_source,
                                 !.outcome = outcome,
                                 !.refid = refid,
                                 !.style = IF refid = -1 THEN "none" ELSE style,
                                 !.citation = IF outcome = "ok" THEN r.citation
                                              ELSE <<>>]
    /\ UNCHANGED <<loaded, files, last_modified, refs, ref_keys,
                   current_ref_source, projVars>>

\* the file is written outside the program: any content, any mtime
ModifyFile(p, c, t) ==
    /\ files[p] # [exists |-> TRUE, mtime |-> t, content |-> c]
    /\ files' = [files EXCEPT ![p] = [exists |-> TRUE, mtime |-> t, content |-> c]]
    /\ last' = NoLast
    /\ UNCHANGED <<loaded, last_modified, refs, ref_keys, current_ref_source,
                   panel, projVars>>

DeleteFile(p) ==
    /\ files[p].exists
    /\ files' = [files EXCEPT ![p] = NoFile]
    /\ last' = NoLast
    /\ UNCHANGED <<loaded, last_modified, refs, ref_keys, current_ref_source,
                   panel, projVars>>

Next ==
    \/ \E a \in LoadSettings : PluginLoaded(a) /\ UNCHANGED hist
    \/ \E p \in Paths, a \in LoadSettings :
          ShowSelector(p, a) /\ UNCHANGED hist
    \/ \E r \in -1..(Len(panel.items) - 1), s \in StyleNames :
          InsertRef(r, s) /\ UNCHANGED hist
    \/ \E p \in Paths, c \in Contents, t \in Times :
          ModifyFile(p, c, t) /\ UNCHANGED hist
    \/ \E p \in Paths : DeleteFile(p) /\ UNCHANGED hist

Spec == Init /\ [][Next]_vars

----------------------------------------------------------------------------
(* The staleness run: one bibliography file, with the history of what each  *)
(* check saw and which file version the cache was parsed from               *)

InitStale ==
    /\ files \in {[p \in Paths |-> IF p = global_file THEN f ELSE NoFile] :
                    f \in FileStates(StaleContents)}
    /\ InitCache

NextStale ==
    \/ \E a \in LoadSettings :
          /\ PluginLoaded(a)
          /\ hist' = Observe(hist, global_file, last'.outcome = "ok")
    \/ \E a \in LoadSettings :
          /\ ShowSelector(global_file, a)
          /\ hist' = Observe(hist, global_file,
                             last'.reparsed /\ last'.outcome = "ok")
    \/ \E c \in StaleContents, t \in Times :
          ModifyFile(global_file, c, t) /\ UNCHANGED hist
    \/ DeleteFile(global_file) /\ UNCHANGED hist

SpecStale == InitStale /\ [][NextStale]_vars

----------------------------------------------------------------------------
(* The projection run: get_item applied to one entry *)

InitProject ==
    /\ loaded = FALSE
    /\ files = [p \in Paths |-> NoFile]
    /\ last_modified = EmptyMap
    /\ refs = EmptyMap
    /\ ref_keys = EmptyMap
    /\ current_ref_source = NoPath
    /\ panel = NoPanel
    /\ last = NoLast
    /\ hist = [p \in Paths |-> NoHist]
    /\ entry \in ProjEntries
    /\ fields_setting \in FieldSettings
    /\ item = [raised |-> FALSE, value |-> NoItem]
    /\ pc = "start"

GetItem ==
    /\ pc = "start"
    /\ item' = get_item(entry, fields_setting)
    /\ pc' = "done"
    /\ UNCHANGED <<entry, fields_setting, cacheVars>>

NextProject == GetItem

SpecProject == InitProject /\ [][NextProject]_vars

----------------------------------------------------------------------------
(* Claims about get_item, checked under SpecProject *)

\* the venue as the claim words it
ClaimedVenue(i) ==
    IF Has(i, "journal") \/ Has(i, "journaltitle")
    THEN (IF Has(i, "journal") THEN i["journal"] ELSE i["journaltitle"])
         \o (IF Has(i, "volume")
             THEN <<" ", "(">> \o i["volume"] \o <<")">> ELSE <<>>)
         \o (IF Has(i, "number") THEN <<" ">> \o i["number"] ELSE <<>>)
    ELSE IF Has(i, "institution") THEN i["institution"]
    ELSE IF Has(i, "booktitle") THEN i["booktitle"]
    ELSE Capitalize(i["ENTRYTYPE"])

\* the search key as the claim words it: ID, then ' | ' + value per present field
RECURSIVE ClaimedSegments(_, _)
ClaimedSegments(i, fieldList) ==
    IF Len(fieldList) = 0 THEN <<>>
    ELSE (IF Has(i, Head(fieldList))
          THEN Bar \o FieldText(i, Head(fieldList))
          ELSE <<>>)
         \o ClaimedSegments(i, Tail(fieldList))

ClaimedKey(i, fieldList) == i["ID"] \o ClaimedSegments(i, fieldList)

\* C7: for every entry with ID and ENTRYTYPE, whatever optional fields are
\* present, get_item returns a record instead of raising, and its publication
\* is the journal-like value (journal before journaltitle, with " (volume)"
\* and " number" appended), else institution, else booktitle, else the
\* capitalized ENTRYTYPE, and is never empty.
C7_ProjectionNeverFails ==
    pc = "done" =>
        /\ ~item.raised
        /\ item.value[4] = ClaimedVenue(entry)
        /\ item.value[4] # <<>>

\* C8: the search key is the ID followed by one " | " + value segment per
\* configured field present on the entry, in configured order; an entry with
\* none of the configured fields has the bare ID as its key, and no key ends
\* with a dangling separator.
C8_SearchKeyConstruction ==
    (pc = "done" /\ ~item.raised) =>
        /\ item.value[1] = ClaimedKey(entry, fields_setting)
        /\ ~EndsWith(item.value[1], Bar)

----------------------------------------------------------------------------
(* Claims about the cache, checked under Spec *)

IsShow(l, p) == l.op = "show_selector" /\ l.path = p

\* C1: when the reparse triggered by show_selector fails, last_modified,
\* refs and ref_keys all keep exactly the values they had before the call.
C1_FailedLoadLeavesCacheUntouched ==
    [][(last'.op = "show_selector" /\ last'.outcome = "loadfail") =>
          /\ last_modified' = last_modified
          /\ refs' = refs
          /\ ref_keys' = ref_keys]_vars

\* C3: two consecutive show_selector calls of one path with no file
\* modification between them: the second does not reparse, leaves
\* last_modified, refs and ref_keys unchanged, and if the first returned
\* records the second returns the identical records and keys.
C3_Idempotent ==
    [][\A p \in Paths :
          (IsShow(last, p) /\ IsShow(last', p)) =>
             /\ ~last'.reparsed
             /\ last_modified' = last_modified
             /\ refs' = refs
             /\ ref_keys' = ref_keys
             /\ last.outcome = "ok" =>
                   /\ last'.outcome = "ok"
                   /\ last'.shown = last.shown
                   /\ last'.keys = last.keys]_vars

\* a second consecutive call that was served the two cached records
C3_Witness ==
    /\ last.op = "show_selector"
    /\ last.repeat
    /\ last.outcome = "ok"
    /\ ~last.reparsed
    /\ Len(last.shown) = 2

\* C4: the first check of a path records the file's mtime and reports stale;
\* a later check reports stale iff the file's mtime is strictly greater than
\* the recorded one and then records the new mtime; an equal or lower mtime
\* reports fresh and leaves the recorded mtime alone; a check right after
\* another of the same path, file unchanged, reports fresh.
C4_CheckModified ==
    [][\A p \in Paths :
          (IsShow(last', p) /\ files[p].exists) =>
             /\ IF p \notin DOMAIN last_modified
                THEN /\ last'.stale
                     /\ last_modified' = Put(last_modified, p, files[p].mtime)
                ELSE IF files[p].mtime > last_modified[p]
                THEN /\ last'.stale
                     /\ last_modified' = Put(last_modified, p, files[p].mtime)
                ELSE /\ ~last'.stale
                     /\ last_modified' = last_modified
             /\ IsShow(last, p) => ~last'.stale]_vars

\* a check of an already recorded path that found a greater mtime
C4_Witness ==
    /\ last.op = "show_selector"
    /\ ~last.first
    /\ last.stale
    /\ last_modified[last.path] = files[last.path].mtime

\* C5: for every path refs and ref_keys are both absent or both present with
\* the same length, and the search key of refs[path][i] starts with
\* ref_keys[path][i].
C5_IndexAligned ==
    \A p \in Paths :
        /\ (p \in DOMAIN refs) <=> (p \in DOMAIN ref_keys)
        /\ p \in DOMAIN refs =>
              /\ Len(refs[p]) = Len(ref_keys[p])
              /\ \A k \in 1..Len(refs[p]) :
                    StartsWith(refs[p][k][1], ref_keys[p][k])

\* a failed reload of a path that holds two records, the other path loaded too
C5_Witness ==
    /\ last.op = "show_selector"
    /\ last.outcome = "loadfail"
    /\ DOMAIN refs = Paths
    /\ Len(refs[last.path]) = 2

\* C10: the key insert_ref substitutes into the style template is the ID of
\* the record the panel showed at the chosen index, whatever happened to the
\* file since; and a step that changes a file changes neither refs, ref_keys
\* nor current_ref_source.
C10_SelectionMapsToShown ==
    [][/\ (last'.op = "insert_ref" /\ last'.outcome = "ok") =>
             last'.citation =
                Replace(Styles[last'.style], Placeholder,
                        KeyOfRecord(panel.items[last'.refid + 1]))
       /\ files' # files =>
             /\ refs' = refs
             /\ ref_keys' = ref_keys
             /\ current_ref_source' = current_ref_source]_vars

\* the second record was chosen after the shown file had been rewritten
C10_Witness ==
    /\ last.op = "insert_ref"
    /\ last.outcome = "ok"
    /\ last.refid = 1
    /\ files[last.path].exists
    /\ files[last.path].content = DocB

----------------------------------------------------------------------------
(* Claims about staleness, checked under SpecStale *)

C6_StatFailureNotCached ==
    [][\A p \in Paths :
          /\ (IsShow(last', p) /\ ~files[p].exists) =>
                /\ last'.outcome = "notfound"
                /\ last_modified' = last_modified
                /\ refs' = refs
                /\ ref_keys' = ref_keys
          /\ (IsShow(last', p) /\ Retry(p)) =>
                /\ last'.outcome # "notfound"
                /\ last'.stale = (p \notin DOMAIN last_modified
                                  \/ files[p].mtime > last_modified[p])
                /\ last'.reparsed = last'.stale
                /\ last_modified'[p] >= files[p].mtime]_vars

\* a first-ever load that succeeded right after a failed stat
C6_Witness ==
    /\ last.op = "show_selector"
    /\ last.retry
    /\ last.first
    /\ last.outcome = "ok"

\* C9: whenever refs[path] is present it is the projection of the file
\* version whose mtime is last_modified[path]; and whenever check_modified
\* would report fresh, refs[path] and ref_keys[path] exist.
C9_CacheCoherence ==
    \A p \in Paths :
        /\ p \in DOMAIN refs =>
              /\ hist[p].src.exists
              /\ hist[p].src.mtime = last_modified[p]
              /\ \E a \in LoadSettings :
                    refs[p] = Projection(hist[p].src.content, a)
        /\ (/\ p \in DOMAIN last_modified
            /\ files[p].exists
            /\ files[p].mtime <= last_modified[p]) =>
              /\ p \in DOMAIN refs
              /\ p \in DOMAIN ref_keys

====
